---- MODULE Spec2Model ----
(***************************************************************************)
(* Portfolio tracker: the web variant (PortfolioManager and its Flask      *)
(* routes, portfolio_tracker_3.py) and the desktop variant                 *)
(* (PortfolioTracker and PositionDialog, portfolio_tracker_Tk_fails.py).   *)
(*                                                                         *)
(* Money and quantities are Python floats in the code; they are modelled   *)
(* as integers.  Time is counted in whole minutes.  An optional value      *)
(* (Python None or a value) is the empty or the one-element sequence.      *)
(* Every request handler / UI callback is one atomic action here: this     *)
(* module is the single-writer, one-request-at-a-time view of the program. *)
(* Spec runs the handlers of both variants; SpecCache runs the price cache *)
(* alone, under every order of lookups and refreshes over time.            *)
(* SpecStore runs the handlers of the web store alone.                     *)
(* SpecThreads, SpecLock, SpecLive and SpecRefresh give up the atomic      *)
(* handlers: the first three run concurrent web requests statement by      *)
(* statement, SpecRefresh the desktop's refresh threads beside its UI      *)
(* thread.                                                                 *)
(***************************************************************************)
EXTENDS Integers, Sequences, FiniteSets, TLC

VARIABLES
    variant,          \* "web" (PortfolioManager) or "tk" (PortfolioTracker)
    portfolio,        \* self.portfolio: sequence of position dicts
    file,             \* content of portfolio_data.json
    price_cache,      \* self.price_cache: ticker -> price
    cache_timestamp,  \* self.cache_timestamp: ticker -> time of the fetch
    clock,            \* datetime.now(), in minutes
    lastOp,           \* the handler that ran last, with its arguments
    ret,              \* what that handler returned / displayed
    lookups,          \* the get_current_price calls that handler made, in order
    faults,           \* number of file errors injected so far
    fetched,          \* history: ticker -> last provider answer since the last refresh
    unqueried,        \* history: per ticker, "no", or how the last refresh found it
                      \* ("fresh" or "stale") if it was not looked up since
    failed,           \* history: tickers whose latest lookup returned None
    ops,              \* number of handlers run so far
    status_var,       \* desktop: the status bar text
    refresh_threads,  \* desktop: refresh threads started and not yet finished
    after_queue,      \* desktop: callbacks handed to root.after, not yet run
    threads,          \* the request threads (web) or refresh threads (desktop)
                      \* that run step by step, each with its local variables
    lock              \* web: self.lock, 0 when free, else the thread holding it

vars == <<variant, portfolio, file, price_cache, cache_timestamp, clock,
          lastOp, ret, lookups, faults, fetched, unqueried, failed, ops,
          status_var, refresh_threads, after_queue, threads, lock>>

-----------------------------------------------------------------------------
(* Bounds of the model *)

MaxPositions == 2
MaxFaults == 1
MaxOps == 2

(* timedelta(minutes=5) *)
CacheMinutes == 5

-----------------------------------------------------------------------------
(* Values *)

None == <<>>
Some(v) == <<v>>
IsNone(x) == x = <<>>
Val(x) == x[1]
\* Python truthiness of an optional number: None and 0 are falsy
Truthy(x) == x # <<>> /\ x[1] # 0

Tickers == {"AAA", "BBB"}

\* str.upper() on the ticker texts a request or the dialog can carry
Upper(s) ==
    CASE s = "aaa" -> "AAA"
      [] s = "bbb" -> "BBB"
      [] OTHER -> s

\* datetime.isoformat(): the text of a time
isoformat(t) == ToString(t)

Prices == {0, 4}

\* What yf.Ticker(t).history(period="1d") can do: a frame whose last Close is
\* a price, an empty frame, or an exception.
ProviderOutcomes ==
    {[kind |-> "price", price |-> p] : p \in Prices}
        \cup {[kind |-> "empty", price |-> 0], [kind |-> "error", price |-> 0]}

\* The position forms a request body or the dialog can carry.
PositionInputs ==
    { [description |-> "a", ticker |-> "aaa", quantity |-> 2, purchase_price |-> 3, fees |-> 1],
      [description |-> "b", ticker |-> "BBB", quantity |-> 0, purchase_price |-> 3, fees |-> 0],
      [description |-> "c", ticker |-> "BBB", quantity |-> 1, purchase_price |-> 2, fees |-> 0] }

FileErrors == {"none", "open", "write"}

Put(f, k, v) == [x \in DOMAIN f \cup {k} |-> IF x = k THEN v ELSE f[x]]
EmptyMap == [x \in {} |-> 0]

-----------------------------------------------------------------------------
(* JSON persistence *)

StringKeys == {"description", "ticker", "date_added"}
WebKeys == <<"id", "description", "ticker", "quantity", "purchase_price", "fees", "date_added">>
TkKeys == <<"description", "ticker", "quantity", "purchase_price", "fees", "date_added">>

NoFile == [state |-> "absent", text |-> <<>>]
CorruptFile == [state |-> "corrupt", text |-> <<>>]

\* the key order of a position dict (dict insertion order)
KeysOf(position) == IF "id" \in DOMAIN position THEN WebKeys ELSE TkKeys

\* one JSON member: the key and the value as a JSON string or a JSON number
JsonMember(k, v) ==
    IF k \in StringKeys
    THEN [key |-> k, t |-> "str", s |-> v, n |-> 0]
    ELSE [key |-> k, t |-> "num", s |-> "", n |-> v]

\* json.dump(self.portfolio, f): a list of objects, members in dict order
json_dump(positions) ==
    [i \in 1..Len(positions) |->
        [j \in 1..Len(KeysOf(positions[i])) |->
            JsonMember(KeysOf(positions[i])[j], positions[i][KeysOf(positions[i])[j]])]]

JsonValue(m) == IF m.t = "str" THEN m.s ELSE m.n

\* json.load(f): a list of dicts
json_load(text) ==
    [i \in 1..Len(text) |->
        [k \in {text[i][j].key : j \in 1..Len(text[i])} |->
            JsonValue(text[i][CHOOSE j \in 1..Len(text[i]) : text[i][j].key = k])]]

\* a save_data that writes nothing
save_data_skipped(positions, f, ferr) == f

\* save_data: open(data_file, 'w') and json.dump inside try/except.  A failing
\* open leaves the file as it was; a failure after the open leaves it cut short.
save_data(positions, f, ferr) ==
    CASE ferr = "none" -> [state |-> "ok", text |-> json_dump(positions)]
      [] ferr = "open" -> f
      [] OTHER -> CorruptFile

\* load_data: nothing without a file, [] when reading or parsing fails
load_data(f) ==
    IF f.state = "ok" THEN json_load(f.text) ELSE <<>>

-----------------------------------------------------------------------------
(* Price cache *)

\* a cache check that still serves an entry exactly five minutes old
CacheHit_inclusive(pc, ts, ticker, now) ==
    /\ ticker \in DOMAIN pc
    /\ ticker \in DOMAIN ts
    /\ now - ts[ticker] <= CacheMinutes

\* a cache check that takes an entry only once it is five minutes old
CacheHit_expired(pc, ts, ticker, now) ==
    /\ ticker \in DOMAIN pc
    /\ ticker \in DOMAIN ts
    /\ now - ts[ticker] >= CacheMinutes

\* the cache check of get_current_price
CacheHit(pc, ts, ticker, now) ==
    /\ ticker \in DOMAIN pc
    /\ ticker \in DOMAIN ts
    /\ now - ts[ticker] < CacheMinutes

\* a get_current_price that stores 0 for a ticker the provider failed on
get_current_price_caching_failures(pc, ts, ticker, now, o) ==
    IF CacheHit(pc, ts, ticker, now)
    THEN [price_cache |-> pc, cache_timestamp |-> ts,
          result |-> Some(pc[ticker]), queried |-> FALSE]
    ELSE IF o.kind = "price"
    THEN [price_cache |-> Put(pc, ticker, o.price),
          cache_timestamp |-> Put(ts, ticker, now),
          result |-> Some(o.price), queried |-> TRUE]
    ELSE [price_cache |-> Put(pc, ticker, 0),
          cache_timestamp |-> Put(ts, ticker, now),
          result |-> None, queried |-> TRUE]

\* a get_current_price that stores the price it fetched without its time
get_current_price_untimed(pc, ts, ticker, now, o) ==
    IF CacheHit(pc, ts, ticker, now)
    THEN [price_cache |-> pc, cache_timestamp |-> ts,
          result |-> Some(pc[ticker]), queried |-> FALSE]
    ELSE IF o.kind = "price"
    THEN [price_cache |-> Put(pc, ticker, o.price),
          cache_timestamp |-> ts,
          result |-> Some(o.price), queried |-> TRUE]
    ELSE [price_cache |-> pc, cache_timestamp |-> ts,
          result |-> None, queried |-> TRUE]

\* get_current_price(ticker) at time now, the provider answering o if asked
get_current_price(pc, ts, ticker, now, o) ==
    IF CacheHit(pc, ts, ticker, now)
    THEN [price_cache |-> pc, cache_timestamp |-> ts,
          result |-> Some(pc[ticker]), queried |-> FALSE]
    ELSE IF o.kind = "price"
    THEN [price_cache |-> Put(pc, ticker, o.price),
          cache_timestamp |-> Put(ts, ticker, now),
          result |-> Some(o.price), queried |-> TRUE]
    ELSE [price_cache |-> pc, cache_timestamp |-> ts,
          result |-> None, queried |-> TRUE]

\* The cache together with the history of the run.
CacheState ==
    [price_cache |-> price_cache, cache_timestamp |-> cache_timestamp,
     fetched |-> fetched, unqueried |-> unqueried, failed |-> failed,
     result |-> None, log |-> <<>>]

\* PortfolioTracker.get_current_price(ticker): the same steps, without a lock
tk_get_current_price(pc, ts, ticker, now, o) ==
    IF CacheHit(pc, ts, ticker, now)
    THEN [price_cache |-> pc, cache_timestamp |-> ts,
          result |-> Some(pc[ticker]), queried |-> FALSE]
    ELSE IF o.kind = "price"
    THEN [price_cache |-> Put(pc, ticker, o.price),
          cache_timestamp |-> Put(ts, ticker, now),
          result |-> Some(o.price), queried |-> TRUE]
    ELSE [price_cache |-> pc, cache_timestamp |-> ts,
          result |-> None, queried |-> TRUE]

\* The call whose outcome is r, made on cache state c, entered in c.log with
\* what the history said about the ticker before the call.
Recorded(c, ticker, now, o, r) ==
    [price_cache |-> r.price_cache,
     cache_timestamp |-> r.cache_timestamp,
     fetched |-> IF r.queried /\ o.kind = "price"
                 THEN [c.fetched EXCEPT ![ticker] = <<o.price, now>>]
                 ELSE c.fetched,
     unqueried |-> [c.unqueried EXCEPT ![ticker] = "no"],
     failed |-> IF IsNone(r.result) THEN c.failed \cup {ticker}
                ELSE c.failed \ {ticker},
     result |-> r.result,
     log |-> Append(c.log,
                [ticker |-> ticker, now |-> now, queried |-> r.queried,
                 outcome |-> IF r.queried THEN o.kind ELSE "hit",
                 result |-> r.result,
                 before |-> <<c.price_cache, c.cache_timestamp>>,
                 after |-> <<r.price_cache, r.cache_timestamp>>,
                 fetched |-> c.fetched[ticker],
                 afterRefresh |-> c.unqueried[ticker],
                 afterFailure |-> ticker \in c.failed])]

\* one get_current_price call of the web variant / of the desktop variant
Lookup(c, ticker, now, o) ==
    Recorded(c, ticker, now, o,
             get_current_price(c.price_cache, c.cache_timestamp, ticker, now, o))

TkLookup(c, ticker, now, o) ==
    Recorded(c, ticker, now, o,
             tk_get_current_price(c.price_cache, c.cache_timestamp, ticker, now, o))

\* a refresh that forgets to clear the timestamps
clear_prices_only(pc, ts) == [price_cache |-> EmptyMap, cache_timestamp |-> ts]

\* "self.price_cache.clear(); self.cache_timestamp.clear()"
clear(pc, ts) == [price_cache |-> EmptyMap, cache_timestamp |-> EmptyMap]

\* the cache cleared at time now, the history noting which tickers were fresh
ClearCache(c, now) ==
    [c EXCEPT !.price_cache = clear(c.price_cache, c.cache_timestamp).price_cache,
              !.cache_timestamp = clear(c.price_cache, c.cache_timestamp).cache_timestamp,
              !.fetched = [t \in Tickers |-> None],
              !.unqueried = [t \in Tickers |->
                                IF c.fetched[t] # None /\ now - c.fetched[t][2] < CacheMinutes
                                THEN "fresh" ELSE "stale"]]

SetCache(c) ==
    /\ price_cache' = c.price_cache
    /\ cache_timestamp' = c.cache_timestamp
    /\ fetched' = c.fetched
    /\ unqueried' = c.unqueried
    /\ failed' = c.failed
    /\ lookups' = c.log

\* the handler that ran, the ticker it was given, the file error it met
Op(name, ticker, ferr) ==
    [op |-> name, ticker |-> ticker, ferr |-> ferr, target |-> 0, id |-> -1]
\* the same for a handler aimed at the position at index i
OpAt(name, ticker, ferr, i) ==
    [op |-> name, ticker |-> ticker, ferr |-> ferr, target |-> i, id |-> -1]
\* the same for a web handler given position_id, which it found at index i
\* (0: nowhere)
OpOn(name, ticker, ferr, i, position_id) ==
    [op |-> name, ticker |-> ticker, ferr |-> ferr, target |-> i, id |-> position_id]

\* a file error may strike while the budget of injected errors lasts
MayFail(ferr) == ferr = "none" \/ faults < MaxFaults
Faulted(ferr) == faults' = IF ferr = "none" THEN faults ELSE faults + 1

\* a handler starts at time now: time never runs backwards, and the run is
\* cut after MaxOps handlers
Begin(now) ==
    /\ ops < MaxOps
    /\ ops' = ops + 1
    /\ now >= clock
    /\ clock' = now
    /\ UNCHANGED <<threads, lock>>

\* clearing the cache and starting the process again cost nothing and are
\* not counted
Arrive(now) ==
    /\ now >= clock
    /\ clock' = now
    /\ UNCHANGED <<ops, threads, lock>>

-----------------------------------------------------------------------------
(* Valuation *)

\* pl / total_cost * 100: a ZeroDivisionError when total_cost is 0
Percent(pl, total_cost) ==
    IF total_cost = 0 THEN [raised |-> TRUE, value |-> 0]
    ELSE [raised |-> FALSE, value |-> (pl * 100) \div total_cost]

\* the percentage without its zero guard
pl_percent_unguarded(pl, total_cost) == Percent(pl, total_cost)

\* "(pl / total_cost) * 100 if total_cost > 0 else 0"
pl_percent_of(pl, total_cost) ==
    IF total_cost > 0 THEN Percent(pl, total_cost)
    ELSE [raised |-> FALSE, value |-> 0]

\* a cost basis that leaves the fees out
position_cost_without_fees(position) ==
    position.quantity * position.purchase_price

\* "total_cost = (quantity * purchase_price) + fees"
position_cost(position) ==
    (position.quantity * position.purchase_price) + position.fees

\* The loop of get_portfolio_data over positions i.. : acc carries the cache
\* state, the rows built so far, both running totals and whether an
\* exception has ended the loop.
RECURSIVE get_portfolio_loop(_, _, _, _, _)
get_portfolio_loop(positions, os, now, i, acc) ==
    IF i > Len(positions) \/ acc.raised THEN acc
    ELSE
      LET position == positions[i]
          total_cost == position_cost(position)
          c == Lookup(acc.c, position.ticker, now, os[position.ticker])
          current_price == c.result
          resolved == ~IsNone(current_price)
          current_value == position.quantity * Val(current_price)
          pl == current_value - total_cost
          pct == pl_percent_of(pl, total_cost)
          row == [id |-> position.id,
                  description |-> position.description,
                  ticker |-> position.ticker,
                  quantity |-> position.quantity,
                  purchase_price |-> position.purchase_price,
                  total_cost |-> total_cost,
                  fees |-> position.fees,
                  current_price |-> current_price,
                  current_value |-> IF resolved THEN Some(current_value) ELSE None,
                  pl |-> IF resolved THEN Some(pl) ELSE None,
                  pl_percent |-> IF resolved THEN Some(pct.value) ELSE None,
                  date_added |-> position.date_added]
      IN  get_portfolio_loop(positions, os, now, i + 1,
            [c |-> c,
             raised |-> resolved /\ pct.raised,
             rows |-> IF resolved /\ pct.raised THEN acc.rows ELSE Append(acc.rows, row),
             total_investment |-> acc.total_investment + total_cost,
             total_current_value |->
                 IF resolved THEN acc.total_current_value + current_value
                 ELSE acc.total_current_value])

\* "total_current_value - total_investment if total_current_value > 0 else 0"
web_total_pl(total_current_value, total_investment) ==
    IF total_current_value > 0 THEN total_current_value - total_investment ELSE 0

\* "(total_pl / total_investment) * 100 if total_investment > 0 else 0"
total_pl_percent_of(total_pl, total_investment) ==
    IF total_investment > 0 THEN Percent(total_pl, total_investment)
    ELSE [raised |-> FALSE, value |-> 0]

\* a get_portfolio_data that leaves out the positions without a price
get_portfolio_data_priced_only(c0, positions, os, now) ==
    LET acc == get_portfolio_loop(positions, os, now, 1,
                  [c |-> c0, raised |-> FALSE, rows |-> <<>>,
                   total_investment |-> 0, total_current_value |-> 0])
        total_pl == web_total_pl(acc.total_current_value, acc.total_investment)
        tpp == total_pl_percent_of(total_pl, acc.total_investment)
        priced(row) == ~IsNone(row.current_price)
    IN  [c |-> acc.c,
         raised |-> acc.raised \/ tpp.raised,
         portfolio_data |-> SelectSeq(acc.rows, priced),
         summary |-> [total_investment |-> acc.total_investment,
                      total_current_value |-> acc.total_current_value,
                      total_pl |-> total_pl,
                      total_pl_percent |-> tpp.value]]

\* PortfolioManager.get_portfolio_data(): (portfolio_data, summary), the
\* cache state it leaves, and whether it raised
get_portfolio_data(c0, positions, os, now) ==
    LET acc == get_portfolio_loop(positions, os, now, 1,
                  [c |-> c0, raised |-> FALSE, rows |-> <<>>,
                   total_investment |-> 0, total_current_value |-> 0])
        total_pl == web_total_pl(acc.total_current_value, acc.total_investment)
        tpp == total_pl_percent_of(total_pl, acc.total_investment)
    IN  [c |-> acc.c,
         raised |-> acc.raised \/ tpp.raised,
         portfolio_data |-> acc.rows,
         summary |-> [total_investment |-> acc.total_investment,
                      total_current_value |-> acc.total_current_value,
                      total_pl |-> total_pl,
                      total_pl_percent |-> tpp.value]]

NoSummary ==
    [total_investment |-> 0, total_current_value |-> 0,
     total_pl |-> 0, total_pl_percent |-> 0]

\* what a handler hands back: the success flag, the rows and summary of a
\* listing, the lines of an export
Result(success, raised, rows, summary, csv) ==
    [success |-> success, raised |-> raised, rows |-> rows,
     summary |-> summary, csv |-> csv]

Plain(success) == Result(success, FALSE, <<>>, NoSummary, <<>>)

\* the route caught an exception: {'success': False, 'message': str(e)}
Caught == Result(FALSE, TRUE, <<>>, NoSummary, <<>>)

-----------------------------------------------------------------------------
(* Web variant: PortfolioManager and the routes *)

\* a search that stops at the last position with the given id
LastWithId(positions, position_id) ==
    IF \E i \in 1..Len(positions) : positions[i].id = position_id
    THEN CHOOSE i \in 1..Len(positions) :
            /\ positions[i].id = position_id
            /\ \A j \in (i + 1)..Len(positions) : positions[j].id # position_id
    ELSE 0

\* index of the first position with the given id, 0 when there is none
FirstWithId(positions, position_id) ==
    IF \E i \in 1..Len(positions) : positions[i].id = position_id
    THEN CHOOSE i \in 1..Len(positions) :
            /\ positions[i].id = position_id
            /\ \A j \in 1..(i - 1) : positions[j].id # position_id
    ELSE 0

RemoveAt(s, i) == [j \in 1..(Len(s) - 1) |-> IF j < i THEN s[j] ELSE s[j + 1]]

\* a position built with the ticker as it was submitted
new_position_raw_ticker(positions, data, now) ==
    [id |-> Len(positions) + 1,
     description |-> data.description,
     ticker |-> data.ticker,
     quantity |-> data.quantity,
     purchase_price |-> data.purchase_price,
     fees |-> data.fees,
     date_added |-> isoformat(now)]

\* the dict add_position builds
new_position(positions, data, now) ==
    [id |-> Len(positions) + 1,
     description |-> data.description,
     ticker |-> Upper(data.ticker),
     quantity |-> data.quantity,
     purchase_price |-> data.purchase_price,
     fees |-> data.fees,
     date_added |-> isoformat(now)]

\* an add_position that never rejects
add_rejects_never(current_price) == FALSE

\* "if current_price is None: return False, ..." of add_position
add_rejects(current_price) == IsNone(current_price)

\* PortfolioManager.add_position(position_data), POST /api/position
add_position(data, o, ferr, now) ==
    /\ variant = "web"
    /\ Begin(now)
    /\ Len(portfolio) < MaxPositions
    /\ MayFail(ferr)
    /\ LET c == Lookup(CacheState, Upper(data.ticker), now, o)
       IN  /\ SetCache(c)
           /\ IF add_rejects(c.result)
              THEN /\ ret' = Plain(FALSE)
                   /\ lastOp' = Op("add_position", Upper(data.ticker), "none")
                   /\ UNCHANGED <<portfolio, file, faults>>
              ELSE /\ portfolio' = Append(portfolio, new_position(portfolio, data, now))
                   /\ file' = save_data(portfolio', file, ferr)
                   /\ Faulted(ferr)
                   /\ lastOp' = Op("add_position", Upper(data.ticker), ferr)
                   /\ ret' = Plain(TRUE)
    /\ UNCHANGED <<variant, status_var, refresh_threads, after_queue>>

\* an edit_position that never validates
edit_validates_never(position, new_ticker) == FALSE

\* whether edit_position looks the ticker up: "Validate ticker if changed"
edit_validates(position, new_ticker) == new_ticker # position.ticker

\* an update that also stamps the position with an id of 0
updated_position_renumbered(position, data) ==
    [position EXCEPT !.id = 0,
                     !.description = data.description,
                     !.ticker = Upper(data.ticker),
                     !.quantity = data.quantity,
                     !.purchase_price = data.purchase_price,
                     !.fees = data.fees]

\* position.update({...}) of edit_position
updated_position(position, data) ==
    [position EXCEPT !.description = data.description,
                     !.ticker = Upper(data.ticker),
                     !.quantity = data.quantity,
                     !.purchase_price = data.purchase_price,
                     !.fees = data.fees]

\* PortfolioManager.edit_position(position_id, position_data), PUT /api/position/<id>
edit_position(position_id, data, o, ferr, now) ==
    /\ variant = "web"
    /\ Begin(now)
    /\ MayFail(ferr)
    /\ LET i == FirstWithId(portfolio, position_id)
           new_ticker == Upper(data.ticker)
           validates == i # 0 /\ edit_validates(portfolio[i], new_ticker)
           c == IF validates THEN Lookup(CacheState, new_ticker, now, o)
                ELSE CacheState
       IN  /\ SetCache(c)
           /\ IF i = 0 \/ (validates /\ IsNone(c.result))
              THEN /\ ret' = Plain(FALSE)
                   /\ lastOp' = OpOn("edit_position", new_ticker, "none", i, position_id)
                   /\ UNCHANGED <<portfolio, file, faults>>
              ELSE /\ portfolio' = [portfolio EXCEPT ![i] = updated_position(@, data)]
                   /\ file' = save_data(portfolio', file, ferr)
                   /\ Faulted(ferr)
                   /\ lastOp' = OpOn("edit_position", new_ticker, ferr, i, position_id)
                   /\ ret' = Plain(TRUE)
    /\ UNCHANGED <<variant, status_var, refresh_threads, after_queue>>

\* PortfolioManager.delete_position(position_id), DELETE /api/position/<id>
delete_position(position_id, ferr, now) ==
    /\ variant = "web"
    /\ Begin(now)
    /\ MayFail(ferr)
    /\ LET i == FirstWithId(portfolio, position_id)
       IN  IF i = 0
           THEN /\ ret' = Plain(FALSE)
                /\ lastOp' = OpOn("delete_position", "", "none", 0, position_id)
                /\ UNCHANGED <<portfolio, file, faults>>
           ELSE /\ portfolio' = RemoveAt(portfolio, i)
                /\ file' = save_data(portfolio', file, ferr)
                /\ Faulted(ferr)
                /\ lastOp' = OpOn("delete_position", "", ferr, i, position_id)
                /\ ret' = Plain(TRUE)
    /\ lookups' = <<>>
    /\ UNCHANGED <<variant, status_var, refresh_threads, after_queue, price_cache, cache_timestamp,
                   fetched, unqueried, failed>>

\* GET /api/portfolio
get_portfolio(os, now) ==
    /\ variant = "web"
    /\ Begin(now)
    /\ LET r == get_portfolio_data(CacheState, portfolio, os, now)
       IN  /\ SetCache(r.c)
           /\ ret' = IF r.raised THEN Caught
                     ELSE Result(TRUE, FALSE, r.portfolio_data, r.summary, <<>>)
    /\ lastOp' = Op("get_portfolio", "", "none")
    /\ UNCHANGED <<variant, status_var, refresh_threads, after_queue, portfolio, file, faults>>

\* PortfolioManager.refresh_all_prices(), POST /api/refresh-prices
refresh_all_prices(now) ==
    /\ variant = "web"
    /\ Arrive(now)
    /\ SetCache(ClearCache(CacheState, now))
    /\ ret' = Plain(TRUE)
    /\ lastOp' = Op("refresh_all_prices", "", "none")
    /\ UNCHANGED <<variant, status_var, refresh_threads, after_queue, portfolio, file, faults>>

\* a cell of the export: "x if x else 'N/A'"
NA == [na |-> TRUE, v |-> 0]
Num(v) == [na |-> FALSE, v |-> v]
cell(x) == IF Truthy(x) THEN Num(Val(x)) ELSE NA

CsvHeader ==
    <<"Description", "Ticker", "Quantity", "Purchase Price", "Total Cost",
      "Fees", "Current Price", "Current Value", "P&L", "P&L %", "Date Added">>

\* the row export_data writes for one entry of portfolio_data
csv_row(position) ==
    [Description |-> position.description,
     Ticker |-> position.ticker,
     Quantity |-> position.quantity,
     PurchasePrice |-> position.purchase_price,
     TotalCost |-> position.total_cost,
     Fees |-> position.fees,
     CurrentPrice |-> cell(position.current_price),
     CurrentValue |-> cell(position.current_value),
     PL |-> cell(position.pl),
     PLPercent |-> cell(position.pl_percent),
     DateAdded |-> position.date_added]

\* an export that skips the entries without a price
csv_lines_priced_only(portfolio_data) ==
    LET priced(position) == ~IsNone(position.current_price)
        kept == SelectSeq(portfolio_data, priced)
    IN  <<CsvHeader>> \o [i \in 1..Len(kept) |-> csv_row(kept[i])]

\* the lines export_data writes: the header, then one row per entry
csv_lines(portfolio_data) ==
    <<CsvHeader>> \o [i \in 1..Len(portfolio_data) |-> csv_row(portfolio_data[i])]

\* GET /api/export
export_data(os, now) ==
    /\ variant = "web"
    /\ Begin(now)
    /\ LET r == get_portfolio_data(CacheState, portfolio, os, now)
       IN  /\ SetCache(r.c)
           /\ ret' = IF r.raised THEN Caught
                     ELSE Result(TRUE, FALSE, r.portfolio_data, r.summary,
                                 csv_lines(r.portfolio_data))
    /\ lastOp' = Op("export_data", "", "none")
    /\ UNCHANGED <<variant, status_var, refresh_threads, after_queue, portfolio, file, faults>>

-----------------------------------------------------------------------------
(* Desktop variant: PositionDialog and PortfolioTracker *)

\* PositionDialog.ok_clicked: the result dict, or None when a check fails.
\* The texts entered carry no surrounding blanks, so strip() changes nothing.
ok_clicked(form) ==
    IF \/ form.description = ""
       \/ Upper(form.ticker) = ""
       \/ form.quantity <= 0
       \/ form.purchase_price <= 0
       \/ form.fees < 0
    THEN None
    ELSE Some([description |-> form.description,
               ticker |-> Upper(form.ticker),
               quantity |-> form.quantity,
               purchase_price |-> form.purchase_price,
               fees |-> form.fees])

\* dialog.result with its date_added key set
with_date(result, ticker, date_added) ==
    [description |-> result.description,
     ticker |-> ticker,
     quantity |-> result.quantity,
     purchase_price |-> result.purchase_price,
     fees |-> result.fees,
     date_added |-> date_added]

\* "total_pl = total_current_value - total_investment"
tk_total_pl(total_current_value, total_investment) ==
    total_current_value - total_investment

\* The loop of update_display over positions i.. ; a row shows "N/A" (None
\* here) in its last four cells when the price is None.
RECURSIVE update_display_loop(_, _, _, _, _)
update_display_loop(positions, os, now, i, acc) ==
    IF i > Len(positions) \/ acc.raised THEN acc
    ELSE
      LET position == positions[i]
          total_cost == position_cost(position)
          c == TkLookup(acc.c, position.ticker, now, os[position.ticker])
          current_price == c.result
          resolved == ~IsNone(current_price)
          current_value == position.quantity * Val(current_price)
          pl == current_value - total_cost
          pct == pl_percent_of(pl, total_cost)
          row == [description |-> position.description,
                  ticker |-> position.ticker,
                  quantity |-> position.quantity,
                  purchase_price |-> position.purchase_price,
                  total_cost |-> total_cost,
                  fees |-> position.fees,
                  current_price |-> current_price,
                  current_value |-> IF resolved THEN Some(current_value) ELSE None,
                  pl |-> IF resolved THEN Some(pl) ELSE None,
                  pl_percent |-> IF resolved THEN Some(pct.value) ELSE None]
      IN  update_display_loop(positions, os, now, i + 1,
            [c |-> c,
             raised |-> resolved /\ pct.raised,
             rows |-> IF resolved /\ pct.raised THEN acc.rows ELSE Append(acc.rows, row),
             total_investment |-> acc.total_investment + total_cost,
             total_current_value |->
                 IF resolved THEN acc.total_current_value + current_value
                 ELSE acc.total_current_value])

\* PortfolioTracker.update_display(): the tree rows and the summary labels
update_display(c0, positions, os, now) ==
    LET acc == update_display_loop(positions, os, now, 1,
                  [c |-> c0, raised |-> FALSE, rows |-> <<>>,
                   total_investment |-> 0, total_current_value |-> 0])
        total_pl == tk_total_pl(acc.total_current_value, acc.total_investment)
        tpp == total_pl_percent_of(total_pl, acc.total_investment)
    IN  [c |-> acc.c,
         raised |-> acc.raised \/ tpp.raised,
         rows |-> acc.rows,
         summary |-> [total_investment |-> acc.total_investment,
                      total_current_value |-> acc.total_current_value,
                      total_pl |-> total_pl,
                      total_pl_percent |-> tpp.value]]

\* what the window shows once update_display has run; the labels keep
\* their old text when it raised before setting them
Shown(success, d) ==
    Result(success, d.raised, d.rows, IF d.raised THEN ret.summary ELSE d.summary, <<>>)

\* nothing on the screen changes
Unshown(success) == Result(success, FALSE, ret.rows, ret.summary, <<>>)

\* PortfolioTracker.add_position(): the dialog gives form, or is cancelled
tk_add_position(form, os, ferr, now) ==
    /\ variant = "tk"
    /\ Begin(now)
    /\ Len(portfolio) < MaxPositions
    /\ MayFail(ferr)
    /\ LET result == ok_clicked(form)
           ticker == Upper(Val(result).ticker)
           c == TkLookup(CacheState, ticker, now, os[ticker])
           position == with_date(Val(result), ticker, isoformat(now))
           d == update_display(c, Append(portfolio, position), os, now)
       IN  IF IsNone(result)
           THEN /\ ret' = Unshown(FALSE)
                /\ lastOp' = Op("add_position", "", "none")
                /\ lookups' = <<>>
                /\ UNCHANGED <<portfolio, file, faults, price_cache, cache_timestamp,
                               fetched, unqueried, failed, status_var>>
           ELSE IF IsNone(c.result)
           THEN /\ SetCache(c)
                /\ ret' = Unshown(FALSE)
                /\ lastOp' = Op("add_position", ticker, "none")
                /\ UNCHANGED <<portfolio, file, faults, status_var>>
           ELSE /\ portfolio' = Append(portfolio, position)
                /\ file' = save_data(portfolio', file, ferr)
                /\ Faulted(ferr)
                /\ SetCache(d.c)
                /\ ret' = Shown(TRUE, d)
                /\ lastOp' = Op("add_position", ticker, ferr)
                /\ status_var' = IF d.raised THEN status_var ELSE "Added position"
    /\ UNCHANGED <<variant, refresh_threads, after_queue>>

\* PortfolioTracker.edit_position(): a row is selected, the dialog gives form
tk_edit_position(index, form, os, ferr, now) ==
    /\ variant = "tk"
    /\ Begin(now)
    /\ index \in 1..Len(ret.rows)
    /\ index \in 1..Len(portfolio)
    /\ MayFail(ferr)
    /\ LET position == portfolio[index]
           result == ok_clicked(form)
           ticker == Upper(Val(result).ticker)
           c == TkLookup(CacheState, ticker, now, os[ticker])
           edited == with_date(Val(result), ticker, position.date_added)
           d == update_display(c, [portfolio EXCEPT ![index] = edited], os, now)
       IN  IF IsNone(result)
           THEN /\ ret' = Unshown(FALSE)
                /\ lastOp' = OpAt("edit_position", "", "none", index)
                /\ lookups' = <<>>
                /\ UNCHANGED <<portfolio, file, faults, price_cache, cache_timestamp,
                               fetched, unqueried, failed, status_var>>
           ELSE IF IsNone(c.result)
           THEN /\ SetCache(c)
                /\ ret' = Unshown(FALSE)
                /\ lastOp' = OpAt("edit_position", ticker, "none", index)
                /\ UNCHANGED <<portfolio, file, faults, status_var>>
           ELSE /\ portfolio' = [portfolio EXCEPT ![index] = edited]
                /\ file' = save_data(portfolio', file, ferr)
                /\ Faulted(ferr)
                /\ SetCache(d.c)
                /\ ret' = Shown(TRUE, d)
                /\ lastOp' = OpAt("edit_position", ticker, ferr, index)
                /\ status_var' = IF d.raised THEN status_var ELSE "Updated position"
    /\ UNCHANGED <<variant, refresh_threads, after_queue>>

\* PortfolioTracker.delete_position(): a row is selected and the user confirms
tk_delete_position(index, os, ferr, now) ==
    /\ variant = "tk"
    /\ Begin(now)
    /\ index \in 1..Len(ret.rows)
    /\ index \in 1..Len(portfolio)
    /\ MayFail(ferr)
    /\ LET d == update_display(CacheState, RemoveAt(portfolio, index), os, now)
       IN  /\ portfolio' = RemoveAt(portfolio, index)
           /\ file' = save_data(portfolio', file, ferr)
           /\ Faulted(ferr)
           /\ SetCache(d.c)
           /\ ret' = Shown(TRUE, d)
           /\ lastOp' = OpAt("delete_position", "", ferr, index)
           /\ status_var' = IF d.raised THEN status_var ELSE "Deleted position"
    /\ UNCHANGED <<variant, refresh_threads, after_queue>>

\* PortfolioTracker.refresh_prices(): the Refresh button starts a thread
tk_refresh_prices(now) ==
    /\ variant = "tk"
    /\ Begin(now)
    /\ refresh_threads' = refresh_threads + 1
    /\ UNCHANGED <<variant, portfolio, file, price_cache, cache_timestamp, lastOp,
                   ret, lookups, faults, fetched, unqueried, failed, status_var,
                   after_queue>>

\* the loop of refresh_thread over positions i.. : the cache state and the
\* status text it leaves
RECURSIVE refresh_loop(_, _, _, _, _)
refresh_loop(positions, os, now, i, acc) ==
    IF i > Len(positions) THEN acc
    ELSE
      LET c == TkLookup(acc.c, positions[i].ticker, now, os[positions[i].ticker])
      IN  refresh_loop(positions, os, now, i + 1,
            [c |-> c,
             status |-> IF Truthy(c.result) THEN "Updated price" ELSE acc.status])

\* refresh_thread, run from its first to its last statement
tk_refresh_thread(os, now) ==
    /\ variant = "tk"
    /\ Begin(now)
    /\ refresh_threads > 0
    /\ refresh_threads' = refresh_threads - 1
    /\ LET r == refresh_loop(portfolio, os, now, 1,
                  [c |-> ClearCache(CacheState, now), status |-> "Refreshing prices..."])
       IN  /\ SetCache(r.c)
           /\ status_var' = r.status
    /\ after_queue' = after_queue \o <<"update_display", "status">>
    /\ lastOp' = Op("refresh_prices", "", "none")
    /\ ret' = Unshown(TRUE)
    /\ UNCHANGED <<variant, portfolio, file, faults>>

\* the UI thread runs the callback at the head of the root.after queue
tk_after(os, now) ==
    /\ variant = "tk"
    /\ Arrive(now)
    /\ after_queue # <<>>
    /\ after_queue' = Tail(after_queue)
    /\ IF Head(after_queue) = "update_display"
       THEN LET d == update_display(CacheState, portfolio, os, now)
            IN  /\ SetCache(d.c)
                /\ ret' = Shown(TRUE, d)
                /\ lastOp' = Op("update_display", "", "none")
                /\ UNCHANGED status_var
       ELSE /\ status_var' = "Prices refreshed"
            /\ UNCHANGED <<price_cache, cache_timestamp, fetched, unqueried, failed,
                           lookups, ret, lastOp>>
    /\ UNCHANGED <<variant, portfolio, file, faults, refresh_threads>>

TkCsvHeader ==
    <<"Description", "Ticker", "Quantity", "Purchase Price", "Total Cost",
      "Fees", "Current Price", "Current Value", "P&L", "P&L %">>

\* The loop of PortfolioTracker.export_data over positions i.. : "if
\* current_price:" computes the row, anything falsy writes four "N/A" cells.
RECURSIVE tk_export_loop(_, _, _, _, _)
tk_export_loop(positions, os, now, i, acc) ==
    IF i > Len(positions) \/ acc.raised THEN acc
    ELSE
      LET position == positions[i]
          c == TkLookup(acc.c, position.ticker, now, os[position.ticker])
          current_price == c.result
          total_cost == position_cost(position)
          priced == Truthy(current_price)
          current_value == position.quantity * Val(current_price)
          pl == current_value - total_cost
          pct == pl_percent_of(pl, total_cost)
          row == [Description |-> position.description,
                  Ticker |-> position.ticker,
                  Quantity |-> position.quantity,
                  PurchasePrice |-> position.purchase_price,
                  TotalCost |-> total_cost,
                  Fees |-> position.fees,
                  CurrentPrice |-> IF priced THEN Num(Val(current_price)) ELSE NA,
                  CurrentValue |-> IF priced THEN Num(current_value) ELSE NA,
                  PL |-> IF priced THEN Num(pl) ELSE NA,
                  PLPercent |-> IF priced THEN Num(pct.value) ELSE NA]
      IN  tk_export_loop(positions, os, now, i + 1,
            [c |-> c,
             raised |-> priced /\ pct.raised,
             lines |-> IF priced /\ pct.raised THEN acc.lines ELSE Append(acc.lines, row)])

\* PortfolioTracker.export_data(): the Export button
tk_export_data(os, now) ==
    /\ variant = "tk"
    /\ Begin(now)
    /\ LET r == tk_export_loop(portfolio, os, now, 1,
                  [c |-> CacheState, raised |-> FALSE, lines |-> <<TkCsvHeader>>])
       IN  /\ SetCache(r.c)
           /\ ret' = Result(~r.raised, r.raised, ret.rows, ret.summary,
                            IF r.raised THEN <<>> ELSE r.lines)
    /\ lastOp' = Op("export_data", "", "none")
    /\ UNCHANGED <<variant, portfolio, file, faults, status_var, refresh_threads,
                   after_queue>>

-----------------------------------------------------------------------------
(* Process start *)

\* the process is started again: __init__ builds empty caches and loads the file
Restart(now) ==
    /\ Arrive(now)
    /\ lastOp.op # "init"
    /\ portfolio' = load_data(file)
    /\ price_cache' = EmptyMap
    /\ cache_timestamp' = EmptyMap
    /\ fetched' = [t \in Tickers |-> None]
    /\ unqueried' = [t \in Tickers |-> "no"]
    /\ failed' = {}
    /\ lookups' = <<>>
    /\ ret' = Plain(TRUE)
    /\ lastOp' = Op("init", "", "none")
    /\ status_var' = "Ready"
    /\ refresh_threads' = IF variant = "tk" THEN 1 ELSE 0
    /\ after_queue' = <<>>
    /\ UNCHANGED <<variant, file, faults>>

\* what an earlier run of the same variant can have saved at time 0
StoredPortfolios(v) ==
    IF v = "web"
    THEN { <<>>,
           <<[id |-> 1, description |-> "a", ticker |-> "AAA", quantity |-> 2,
              purchase_price |-> 3, fees |-> 1, date_added |-> isoformat(0)]>>,
           <<[id |-> 1, description |-> "a", ticker |-> "AAA", quantity |-> 2,
              purchase_price |-> 3, fees |-> 1, date_added |-> isoformat(0)],
             [id |-> 2, description |-> "b", ticker |-> "BBB", quantity |-> 0,
              purchase_price |-> 3, fees |-> 0, date_added |-> isoformat(0)]>> }
    ELSE { <<>>,
           <<[description |-> "a", ticker |-> "AAA", quantity |-> 2,
              purchase_price |-> 3, fees |-> 1, date_added |-> isoformat(0)]>>,
           <<[description |-> "a", ticker |-> "AAA", quantity |-> 2,
              purchase_price |-> 3, fees |-> 1, date_added |-> isoformat(0)],
             [description |-> "c", ticker |-> "BBB", quantity |-> 1,
              purchase_price |-> 2, fees |-> 0, date_added |-> isoformat(0)]>> }

\* the state __init__ leaves, the data file being one of files[variant]
InitWith(files) ==
    /\ variant \in {"web", "tk"}
    /\ file \in files[variant]
    /\ portfolio = load_data(file)
    /\ price_cache = EmptyMap
    /\ cache_timestamp = EmptyMap
    /\ clock = 0
    /\ lastOp = Op("init", "", "none")
    /\ ret = Plain(TRUE)
    /\ lookups = <<>>
    /\ faults = 0
    /\ fetched = [t \in Tickers |-> None]
    /\ unqueried = [t \in Tickers |-> "no"]
    /\ failed = {}
    /\ ops = 0
    /\ status_var = "Ready"
    /\ refresh_threads = IF variant = "tk" THEN 1 ELSE 0
    /\ after_queue = <<>>
    /\ threads = <<>>
    /\ lock = 0

\* the ids a request can name: those in the store and one that is not
IdInputs ==
    IF variant = "web" THEN {portfolio[i].id : i \in 1..Len(portfolio)} \cup {0}
    ELSE {}

\* Every handler, the environment drawing request times, position forms,
\* provider answers and file errors from the given sets.  A handler that
\* looks several tickers up is given one answer per ticker: the provider
\* answers alike for the same ticker while one handler runs.
Handlers(times, forms, outcomes, ferrs) ==
    \E now \in times :
        \/ \E data \in forms, o \in outcomes, ferr \in ferrs :
              add_position(data, o, ferr, now)
        \/ \E position_id \in IdInputs, data \in forms, o \in outcomes, ferr \in ferrs :
              edit_position(position_id, data, o, ferr, now)
        \/ \E position_id \in IdInputs, ferr \in ferrs :
              delete_position(position_id, ferr, now)
        \/ \E os \in [Tickers -> outcomes] : get_portfolio(os, now)
        \/ refresh_all_prices(now)
        \/ \E os \in [Tickers -> outcomes] : export_data(os, now)
        \/ \E form \in forms, os \in [Tickers -> outcomes], ferr \in ferrs :
              tk_add_position(form, os, ferr, now)
        \/ \E index \in 1..Len(portfolio), form \in forms,
              os \in [Tickers -> outcomes], ferr \in ferrs :
              tk_edit_position(index, form, os, ferr, now)
        \/ \E index \in 1..Len(portfolio), os \in [Tickers -> outcomes], ferr \in ferrs :
              tk_delete_position(index, os, ferr, now)
        \/ tk_refresh_prices(now)
        \/ \E os \in [Tickers -> outcomes] : tk_refresh_thread(os, now)
        \/ \E os \in [Tickers -> outcomes] : tk_after(os, now)
        \/ \E os \in [Tickers -> outcomes] : tk_export_data(os, now)
        \/ Restart(now)

\* Some handler calls get_current_price(ticker): the price cache as every
\* caller sees it.
price_lookup(ticker, o, now) ==
    /\ Arrive(now)
    /\ SetCache(IF variant = "web" THEN Lookup(CacheState, ticker, now, o)
                ELSE TkLookup(CacheState, ticker, now, o))
    /\ lastOp' = Op("get_current_price", ticker, "none")
    /\ UNCHANGED <<variant, portfolio, file, ret, faults, status_var,
                   refresh_threads, after_queue>>

-----------------------------------------------------------------------------
(* The store and the valuation: every request arrives within the same       *)
(* minute, the provider answers with a price or fails, the disk may fail.   *)

DataFiles(v) ==
    {NoFile, CorruptFile}
        \cup {[state |-> "ok", text |-> json_dump(ps)] :
                ps \in {qs \in StoredPortfolios(v) : Len(qs) = 2}}
Answers == {[kind |-> "price", price |-> 4], [kind |-> "error", price |-> 0]}

Init == InitWith([v \in {"web", "tk"} |-> DataFiles(v)])
Next == Handlers({0}, PositionInputs, Answers, FileErrors)
Spec == Init /\ [][Next]_vars

-----------------------------------------------------------------------------
(* The web store alone: positions are added, edited and deleted.  Since an  *)
(* id is len(self.portfolio) + 1, an add after a delete can repeat an id,   *)
(* and the data file of an earlier run can hold two positions with one id.  *)

\* what add, add, delete 1, add have left in the file
RepeatedId ==
    <<[id |-> 2, description |-> "b", ticker |-> "BBB", quantity |-> 0,
       purchase_price |-> 3, fees |-> 0, date_added |-> isoformat(0)],
      [id |-> 2, description |-> "a", ticker |-> "AAA", quantity |-> 2,
       purchase_price |-> 3, fees |-> 1, date_added |-> isoformat(0)]>>

StoreFiles(v) ==
    IF v = "web"
    THEN {[state |-> "ok", text |-> json_dump(ps)] :
             ps \in StoredPortfolios(v) \cup {RepeatedId}}
    ELSE {}

InitStore == InitWith([v \in {"web", "tk"} |-> StoreFiles(v)])
NextStore ==
    \/ \E data \in PositionInputs, o \in Answers, ferr \in FileErrors :
          add_position(data, o, ferr, 0)
    \/ \E position_id \in IdInputs, data \in PositionInputs, o \in Answers,
          ferr \in FileErrors :
          edit_position(position_id, data, o, ferr, 0)
    \/ \E position_id \in IdInputs, ferr \in FileErrors :
          delete_position(position_id, ferr, 0)
SpecStore == InitStore /\ [][NextStore]_vars

-----------------------------------------------------------------------------
(* The price cache over time: lookups of any ticker arrive at several       *)
(* times, the provider gives any answer, and the cache is cleared by        *)
(* refresh_all_prices (web) or by a refresh thread (desktop).               *)

MaxTime == 5

\* the times at which requests arrive: within the five minutes, at them, after
Times == {0, CacheMinutes - 1} \cup (CacheMinutes..MaxTime)

NoFiles(v) == {NoFile}

InitCache == InitWith([v \in {"web", "tk"} |-> NoFiles(v)])
NextCache ==
    \E now \in Times :
        \/ \E ticker \in Tickers, o \in ProviderOutcomes : price_lookup(ticker, o, now)
        \/ refresh_all_prices(now)
        \/ tk_refresh_prices(now)
        \/ \E os \in [Tickers -> ProviderOutcomes] : tk_refresh_thread(os, now)
SpecCache == InitCache /\ [][NextCache]_vars

-----------------------------------------------------------------------------
(* Web variant, concurrent requests.  The server gives each request its    *)
(* own thread; a thread runs its handler one statement at a time, and the  *)
(* threads interleave between statements.                                  *)

MaxRequests == 2

\* a request thread at the start of its handler, with its local variables:
\* the time it read, its get_current_price call, the position it built,
\* the text it serialised, what it returned, the index i its loop over
\* self.portfolio has reached; waited and overlapped are history: it stood
\* at the lock while another thread held it, its store mutation ran while
\* another thread's was under way
NewThread(req, ticker, data, id) ==
    [req |-> req, ticker |-> ticker, data |-> data, id |-> id,
     pc |-> "start", now |-> 0, call |-> <<>>, position |-> <<>>,
     text |-> <<>>, success |-> FALSE, waited |-> FALSE, overlapped |-> FALSE,
     i |-> 0]

\* the form the concurrent add requests submit
ThreadForm == CHOOSE data \in PositionInputs : data.fees > 0

\* the requests that arrive: a price lookup, POST /api/refresh-prices,
\* POST /api/position, DELETE /api/position/1
Requests ==
    <<NewThread("get_current_price", Upper(ThreadForm.ticker), ThreadForm, 0),
      NewThread("refresh_all_prices", "", ThreadForm, 0),
      NewThread("add_position", Upper(ThreadForm.ticker), ThreadForm, 0),
      NewThread("delete_position", "", ThreadForm, 1)>>

\* what no request thread touches
Untouched == <<variant, lastOp, ret, faults, ops, status_var, refresh_threads,
               after_queue>>

CacheVars == <<price_cache, cache_timestamp, fetched, unqueried, failed, lookups>>

\* The server accepts request k and starts a thread for it, up to limit
\* threads.  The requests arrive before any of them is served, which makes
\* them concurrent; runs that differ only in how the threads are numbered
\* are the same run, so the threads are numbered in the order of Requests.
request(k, limit) ==
    /\ variant = "web"
    /\ Len(threads) < limit
    /\ \A t \in DOMAIN threads :
          threads[t].pc = "start" /\ \E j \in 1..k : threads[t] = Requests[j]
    /\ threads' = Append(threads, Requests[k])
    /\ UNCHANGED <<Untouched, CacheVars, portfolio, file, clock, lock>>

\* a lock that every thread takes at once
lock_ignored(l) == TRUE

\* "with self.lock:" blocks until the lock is free
lock_free(l) == l = 0

\* the thread is about to call get_current_price: at once in a price
\* lookup and in add_position, after the search in edit_position, once per
\* position in get_portfolio_data
Calling(r) ==
    \/ r.pc = "start" /\ r.req \in {"get_current_price", "add_position"}
    \/ r.pc = "call"

\* get_current_price: "with self.lock:" and "now = datetime.now()"
acquire(t, now) ==
    /\ Calling(threads[t])
    /\ lock_free(lock)
    /\ lock' = t
    /\ now >= clock
    /\ clock' = now
    /\ threads' = [threads EXCEPT ![t].pc = "inside", ![t].now = now]
    /\ UNCHANGED <<Untouched, CacheVars, portfolio, file>>

\* the thread stands before a lock it has to take
AtLock(r) ==
    \/ Calling(r)
    \/ r.pc = "start" /\ r.req = "refresh_all_prices"

\* a lock that stays with the thread when the call returns None
kept_on_failure(t, result) == IF IsNone(result) THEN t ELSE 0

\* the lock when get_current_price returns: every return (the cached price,
\* the fetched price, None for an empty frame, None from the except clause)
\* leaves the with block, which releases it
released(t, result) == 0

\* where the caller goes on when get_current_price has returned result
returned(r, result) ==
    CASE r.req = "get_current_price" -> "done"
      [] r.req = "add_position" -> IF add_rejects(result) THEN "done" ELSE "build"
      [] r.req = "edit_position" -> IF IsNone(result) THEN "done" ELSE "update"
      [] OTHER -> "row"

\* get_current_price inside the lock: the cache check, the provider call
\* answered with o, the return that releases the lock; add_position goes
\* on to build its position unless the price is None
locked_lookup(t, o) ==
    /\ threads[t].pc = "inside"
    /\ LET c == Lookup(CacheState, threads[t].ticker, threads[t].now, o)
           next == returned(threads[t], c.result)
       IN  /\ SetCache(c)
           /\ threads' = [u \in DOMAIN threads |->
                  IF u = t
                  THEN [threads[t] EXCEPT !.call = c.log, !.pc = next,
                                          !.success = ~IsNone(c.result)]
                  ELSE IF AtLock(threads[u])
                  THEN [threads[u] EXCEPT !.waited = TRUE]
                  ELSE threads[u]]
           /\ lock' = released(t, c.result)
    /\ UNCHANGED <<Untouched, portfolio, file, clock>>

\* refresh_all_prices: "with self.lock:"
refresh_acquire(t) ==
    /\ threads[t].pc = "start"
    /\ threads[t].req = "refresh_all_prices"
    /\ lock_free(lock)
    /\ lock' = t
    /\ threads' = [threads EXCEPT ![t].pc = "clearing"]
    /\ UNCHANGED <<Untouched, CacheVars, portfolio, file, clock>>

\* refresh_all_prices inside the lock: "self.price_cache.clear()"
refresh_clear(t) ==
    /\ threads[t].pc = "clearing"
    /\ price_cache' = clear(price_cache, cache_timestamp).price_cache
    /\ threads' = [threads EXCEPT ![t].pc = "clearing_timestamps"]
    /\ UNCHANGED <<Untouched, portfolio, file, clock, lock, cache_timestamp,
                   fetched, unqueried, failed, lookups>>

\* refresh_all_prices inside the lock: "self.cache_timestamp.clear()", then
\* the end of the with block releases the lock
refresh_clear_timestamps(t) ==
    /\ threads[t].pc = "clearing_timestamps"
    /\ SetCache(ClearCache(CacheState, clock))
    /\ lock' = 0
    /\ threads' = [threads EXCEPT ![t].pc = "done", ![t].success = TRUE]
    /\ UNCHANGED <<Untouched, portfolio, file, clock>>

\* the thread is between its first access to self.portfolio and the close
\* of the file it saves to
InWindow(r) == r.pc \in {"append", "dump", "close"}

\* thread t enters its window: it and the threads already in theirs overlap
Entering(t, r) ==
    [u \in DOMAIN threads |->
        IF u = t
        THEN [r EXCEPT !.overlapped =
                  @ \/ \E v \in DOMAIN threads : v # t /\ InWindow(threads[v])]
        ELSE IF InWindow(threads[u])
        THEN [threads[u] EXCEPT !.overlapped = TRUE]
        ELSE threads[u]]

\* add_position: "position = {'id': len(self.portfolio) + 1, ...}"
build_position(t) ==
    /\ threads[t].pc = "build"
    /\ threads' = Entering(t,
          [threads[t] EXCEPT !.position = <<new_position(portfolio, threads[t].data, clock)>>,
                             !.pc = "append"])
    /\ UNCHANGED <<Untouched, CacheVars, portfolio, file, clock, lock>>

\* add_position: "self.portfolio.append(position)"
append_position(t) ==
    /\ threads[t].pc = "append"
    /\ portfolio' = Append(portfolio, threads[t].position[1])
    /\ threads' = [threads EXCEPT ![t].pc = "dump"]
    /\ UNCHANGED <<Untouched, CacheVars, file, clock, lock>>

\* delete_position: the search for the id and "del self.portfolio[i]", or
\* the return of "Position not found"
remove_position(t) ==
    /\ threads[t].pc = "start"
    /\ threads[t].req = "delete_position"
    /\ LET i == FirstWithId(portfolio, threads[t].id)
       IN  IF i = 0
           THEN /\ threads' = [threads EXCEPT ![t].pc = "done"]
                /\ UNCHANGED portfolio
           ELSE /\ portfolio' = RemoveAt(portfolio, i)
                /\ threads' = Entering(t, [threads[t] EXCEPT !.pc = "dump"])
    /\ UNCHANGED <<Untouched, CacheVars, file, clock, lock>>

\* save_data: open(self.data_file, 'w') empties the file, json.dump puts
\* the text of the portfolio as it is now into the buffer of the file object
dump(t) ==
    /\ threads[t].pc = "dump"
    /\ file' = CorruptFile
    /\ threads' = [threads EXCEPT ![t].text = <<json_dump(portfolio)>>, ![t].pc = "close"]
    /\ UNCHANGED <<Untouched, CacheVars, portfolio, clock, lock>>

\* a close that writes nothing
flush_nothing(f, text) == f

\* the buffer is written from the start of the file: over a longer text
\* that another thread wrote meanwhile it leaves a file that is no JSON
flush(f, text) ==
    IF f.state = "ok" /\ Len(f.text) > Len(text) THEN CorruptFile
    ELSE [state |-> "ok", text |-> text]

\* save_data: the end of the with block closes the file; the handler
\* returns True
close(t) ==
    /\ threads[t].pc = "close"
    /\ file' = flush(file, threads[t].text[1])
    /\ threads' = [threads EXCEPT ![t].pc = "done", ![t].success = TRUE]
    /\ UNCHANGED <<Untouched, CacheVars, portfolio, clock, lock>>

\* the data file the server starts with: one position
ThreadFiles(v) ==
    IF v = "web"
    THEN {[state |-> "ok", text |-> json_dump(ps)] :
             ps \in {qs \in StoredPortfolios(v) : Len(qs) = 1}}
    ELSE {}

ThreadTimes == {0, CacheMinutes}

InitThreads == InitWith([v \in {"web", "tk"} |-> ThreadFiles(v)])
NextThreads ==
    \/ \E k \in DOMAIN Requests : request(k, MaxRequests)
    \/ \E t \in DOMAIN threads, now \in ThreadTimes : acquire(t, now)
    \/ \E t \in DOMAIN threads, o \in Answers : locked_lookup(t, o)
    \/ \E t \in DOMAIN threads : refresh_acquire(t)
    \/ \E t \in DOMAIN threads : refresh_clear(t)
    \/ \E t \in DOMAIN threads : refresh_clear_timestamps(t)
    \/ \E t \in DOMAIN threads : build_position(t)
    \/ \E t \in DOMAIN threads : append_position(t)
    \/ \E t \in DOMAIN threads : remove_position(t)
    \/ \E t \in DOMAIN threads : dump(t)
    \/ \E t \in DOMAIN threads : close(t)
SpecThreads == InitThreads /\ [][NextThreads]_vars

\* The lock alone: concurrent price lookups and cache refreshes.
MaxCallers == 3

\* the requests that take the lock and leave the store alone
Lockers == {k \in DOMAIN Requests :
               Requests[k].req \in {"get_current_price", "refresh_all_prices"}}

InitLock == InitWith([v \in {"web", "tk"} |-> ThreadFiles(v)])
NextLock ==
    \/ \E k \in Lockers : request(k, MaxCallers)
    \/ \E t \in DOMAIN threads, now \in ThreadTimes : acquire(t, now)
    \/ \E t \in DOMAIN threads, o \in Answers : locked_lookup(t, o)
    \/ \E t \in DOMAIN threads : refresh_acquire(t)
    \/ \E t \in DOMAIN threads : refresh_clear(t)
    \/ \E t \in DOMAIN threads : refresh_clear_timestamps(t)
SpecLock == InitLock /\ [][NextLock]_vars

-----------------------------------------------------------------------------
(* Web variant, the requests that take the lock on their way: adds, edits, *)
(* listings and refreshes run concurrently within one minute, the         *)
(* provider answering every call; a thread that can take a step is         *)
(* scheduled in the end.                                                   *)

MaxLive == 2

\* the form the concurrent edit requests submit: another ticker than the
\* stored position has
EditForm == CHOOSE data \in PositionInputs : data.fees = 0 /\ data.quantity > 0

\* POST /api/position, PUT /api/position/1, GET /api/portfolio,
\* POST /api/refresh-prices
LiveRequests ==
    <<NewThread("add_position", Upper(ThreadForm.ticker), ThreadForm, 0),
      NewThread("edit_position", Upper(EditForm.ticker), EditForm, 1),
      NewThread("get_portfolio_data", "", ThreadForm, 0),
      NewThread("refresh_all_prices", "", ThreadForm, 0)>>

\* the provider answers every call: with a price, with an empty frame or
\* with an exception
LiveAnswers == {o \in ProviderOutcomes : o.kind = "price" => o.price > 0}

\* the server accepts request k of LiveRequests, as in request(k, limit);
\* the concurrent requests are of different kinds
live_request(k, limit) ==
    /\ variant = "web"
    /\ Len(threads) < limit
    /\ \A t \in DOMAIN threads :
          threads[t].pc = "start" /\ \E j \in 1..(k - 1) : threads[t] = LiveRequests[j]
    /\ threads' = Append(threads, LiveRequests[k])
    /\ UNCHANGED <<Untouched, CacheVars, portfolio, file, clock, lock>>

\* edit_position: the search for the id; "Position not found", or the
\* lookup of a changed ticker, or straight on to the update
edit_find(t) ==
    /\ threads[t].pc = "start"
    /\ threads[t].req = "edit_position"
    /\ LET i == FirstWithId(portfolio, threads[t].id)
           next == IF i = 0 THEN "done"
                   ELSE IF edit_validates(portfolio[i], threads[t].ticker) THEN "call"
                   ELSE "update"
       IN  threads' = [threads EXCEPT ![t].i = i, ![t].pc = next]
    /\ UNCHANGED <<Untouched, CacheVars, portfolio, file, clock, lock>>

\* edit_position: "position.update({...})".  No request of LiveRequests
\* removes a position, so the dict found at index i is still there.
edit_update(t) ==
    /\ threads[t].pc = "update"
    /\ portfolio' = [portfolio EXCEPT ![threads[t].i] =
                        updated_position(@, threads[t].data)]
    /\ threads' = Entering(t, [threads[t] EXCEPT !.pc = "dump"])
    /\ UNCHANGED <<Untouched, CacheVars, file, clock, lock>>

\* get_portfolio_data: "for position in self.portfolio:" takes the next
\* position of the list as it is now and goes to look its ticker up, or
\* ends the loop; the totals and the return follow without a lock
next_position(t) ==
    /\ \/ threads[t].pc = "start" /\ threads[t].req = "get_portfolio_data"
       \/ threads[t].pc = "row"
    /\ LET j == threads[t].i + 1
       IN  threads' =
              IF j <= Len(portfolio)
              THEN [threads EXCEPT ![t].i = j, ![t].ticker = portfolio[j].ticker,
                                   ![t].pc = "call"]
              ELSE [threads EXCEPT ![t].pc = "done", ![t].success = TRUE]
    /\ UNCHANGED <<Untouched, CacheVars, portfolio, file, clock, lock>>

\* a step of some request thread
live_step ==
    \/ \E t \in DOMAIN threads : acquire(t, 0)
    \/ \E t \in DOMAIN threads, o \in LiveAnswers : locked_lookup(t, o)
    \/ \E t \in DOMAIN threads : refresh_acquire(t)
    \/ \E t \in DOMAIN threads : refresh_clear(t)
    \/ \E t \in DOMAIN threads : refresh_clear_timestamps(t)
    \/ \E t \in DOMAIN threads : build_position(t)
    \/ \E t \in DOMAIN threads : append_position(t)
    \/ \E t \in DOMAIN threads : edit_find(t)
    \/ \E t \in DOMAIN threads : edit_update(t)
    \/ \E t \in DOMAIN threads : next_position(t)
    \/ \E t \in DOMAIN threads : dump(t)
    \/ \E t \in DOMAIN threads : close(t)

InitLive == InitWith([v \in {"web", "tk"} |-> ThreadFiles(v)])
NextLive ==
    \/ \E k \in DOMAIN LiveRequests : live_request(k, MaxLive)
    \/ \E t \in DOMAIN threads : acquire(t, 0)
    \/ \E t \in DOMAIN threads, o \in LiveAnswers : locked_lookup(t, o)
    \/ \E t \in DOMAIN threads : refresh_acquire(t)
    \/ \E t \in DOMAIN threads : refresh_clear(t)
    \/ \E t \in DOMAIN threads : refresh_clear_timestamps(t)
    \/ \E t \in DOMAIN threads : build_position(t)
    \/ \E t \in DOMAIN threads : append_position(t)
    \/ \E t \in DOMAIN threads : edit_find(t)
    \/ \E t \in DOMAIN threads : edit_update(t)
    \/ \E t \in DOMAIN threads : next_position(t)
    \/ \E t \in DOMAIN threads : dump(t)
    \/ \E t \in DOMAIN threads : close(t)
SpecLive == InitLive /\ [][NextLive]_vars /\ WF_vars(live_step)

-----------------------------------------------------------------------------
(* Desktop variant, refresh threads.  refresh_prices starts a daemon       *)
(* thread that runs refresh_thread one statement at a time beside the UI   *)
(* thread, which goes on serving clicks and root.after callbacks.          *)

\* a refresh thread at its first statement, with the history of what it
\* did: the cache maps as its clear() calls left them, the portfolio it
\* then found, the tickers it looked up, the callbacks it handed over
NewRefresh ==
    [pc |-> "clear", i |-> 1, cleared |-> <<>>, found |-> <<>>,
     looked |-> <<>>, handed |-> <<>>]

\* what no refresh thread touches
RefreshUntouched == <<variant, file, portfolio, lastOp, ret, faults, ops, clock, lock>>

\* threading.Thread(target=refresh_thread, daemon=True).start() takes
\* effect: the thread sets the status text
refresh_start ==
    /\ variant = "tk"
    /\ refresh_threads > 0
    /\ refresh_threads' = refresh_threads - 1
    /\ threads' = Append(threads, NewRefresh)
    /\ status_var' = "Refreshing prices..."
    /\ UNCHANGED <<RefreshUntouched, CacheVars, after_queue>>

\* refresh_thread: "self.price_cache.clear(); self.cache_timestamp.clear()"
refresh_clear_caches(t) ==
    /\ threads[t].pc = "clear"
    /\ LET c == ClearCache(CacheState, clock)
       IN  /\ SetCache(c)
           /\ threads' = [threads EXCEPT
                             ![t].pc = "loop",
                             ![t].cleared = <<c.price_cache, c.cache_timestamp>>,
                             ![t].found = portfolio]
    /\ UNCHANGED <<RefreshUntouched, status_var, refresh_threads, after_queue>>

\* refresh_thread: one round of "for position in self.portfolio", the list
\* iterator taking the position at its index from the list as it is now
refresh_lookup(t, o) ==
    /\ threads[t].pc = "loop"
    /\ threads[t].i <= Len(portfolio)
    /\ LET ticker == portfolio[threads[t].i].ticker
           c == TkLookup(CacheState, ticker, clock, o)
       IN  /\ SetCache(c)
           /\ status_var' = IF Truthy(c.result) THEN "Updated price" ELSE status_var
           /\ threads' = [threads EXCEPT ![t].i = @ + 1,
                                         ![t].looked = Append(@, ticker)]
    /\ UNCHANGED <<RefreshUntouched, refresh_threads, after_queue>>

\* the callbacks in another order
dispatched_status_first == <<"status", "update_display">>

\* "self.root.after(0, self.update_display)" and then
\* "self.root.after(0, lambda: self.status_var.set("Prices refreshed"))"
dispatched == <<"update_display", "status">>

\* refresh_thread: the loop is over, both callbacks are handed to the UI thread
refresh_dispatch(t) ==
    /\ threads[t].pc = "loop"
    /\ threads[t].i > Len(portfolio)
    /\ after_queue' = after_queue \o dispatched
    /\ threads' = [threads EXCEPT ![t].pc = "done", ![t].handed = dispatched]
    /\ UNCHANGED <<RefreshUntouched, CacheVars, status_var, refresh_threads>>

\* a refresh thread takes its next step, every provider call returning
refresh_step ==
    \/ refresh_start
    \/ \E t \in DOMAIN threads : refresh_clear_caches(t)
    \/ \E t \in DOMAIN threads, o \in Answers : refresh_lookup(t, o)
    \/ \E t \in DOMAIN threads : refresh_dispatch(t)

\* the data file the program starts with: one position or more
RefreshFiles(v) ==
    IF v = "tk"
    THEN {[state |-> "ok", text |-> json_dump(ps)] :
             ps \in {qs \in StoredPortfolios(v) : Len(qs) >= 1}}
    ELSE {}

\* refresh_prices calls in one run, the one of __init__ included
MaxRefreshes == 2

\* what the provider answers the UI thread
UiAnswers == {os \in [Tickers -> Answers] : \A t \in Tickers : os[t].kind = "price"}

InitRefresh == InitWith([v \in {"web", "tk"} |-> RefreshFiles(v)])
NextRefresh ==
    \/ refresh_start
    \/ \E t \in DOMAIN threads : refresh_clear_caches(t)
    \/ \E t \in DOMAIN threads, o \in Answers : refresh_lookup(t, o)
    \/ \E t \in DOMAIN threads : refresh_dispatch(t)
    \/ refresh_threads + Len(threads) < MaxRefreshes /\ tk_refresh_prices(0)
    \/ \E os \in UiAnswers : tk_after(os, 0)
    \/ \E index \in 1..Len(portfolio), os \in UiAnswers :
          tk_delete_position(index, os, "none", 0)

\* the scheduler lets every thread run: a refresh thread that can take a
\* step takes one
SpecRefresh == InitRefresh /\ [][NextRefresh]_vars /\ WF_vars(refresh_step)

-----------------------------------------------------------------------------
(* Properties of the price cache, checked under SpecCache *)

\* the get_current_price calls of the last handler, as a set
Calls == {lookups[i] : i \in 1..Len(lookups)}

\* the provider gave no price
Unavailable(call) == call.outcome \in {"empty", "error"}

\* C1: once the provider has given a price for a ticker, every
\* get_current_price for it made less than five minutes after that fetch,
\* with no refresh in between, returns that price and asks no provider.
C1_CachedWithinFiveMinutes ==
    \A call \in Calls :
        (call.fetched # None /\ call.now - call.fetched[2] < CacheMinutes)
            => (call.result = Some(call.fetched[1]) /\ ~call.queried)

\* a call four minutes after the fetch that was answered from the cache
C1_Witness ==
    \E call \in Calls :
        /\ call.fetched # None
        /\ call.now - call.fetched[2] = CacheMinutes - 1
        /\ ~call.queried
        /\ call.result = Some(call.fetched[1])

\* C2: when refresh_all_prices has run the cache is empty for every ticker,
\* and the first get_current_price for a ticker after a refresh asks the
\* provider, however fresh its entry was when the refresh ran.
C2_RefreshForcesQuery ==
    /\ lastOp.op = "refresh_all_prices"
          => (price_cache = EmptyMap /\ cache_timestamp = EmptyMap)
    /\ \A call \in Calls : call.afterRefresh # "no" => call.queried

\* the web variant asks the provider for a ticker whose entry was fresh
\* when the refresh emptied the cache
C2_Witness ==
    /\ variant = "web"
    /\ \E call \in Calls : call.afterRefresh = "fresh" /\ call.queried

\* C3: when the provider raises or answers with nothing, get_current_price
\* returns None and leaves price_cache and cache_timestamp as they were, and
\* the next get_current_price for that ticker asks the provider again.
C3_FailureNotCached ==
    \A call \in Calls :
        /\ Unavailable(call) => (call.result = None /\ call.after = call.before)
        /\ call.afterFailure => call.queried

\* a ticker with an expired entry fails twice in a row: the entry stays and
\* the second call asks again
C3_Witness ==
    \E call \in Calls :
        /\ call.afterFailure
        /\ Unavailable(call)
        /\ call.ticker \in DOMAIN call.before[1]
        /\ call.after = call.before

-----------------------------------------------------------------------------
(* Properties of the handlers, checked under Spec *)

\* a handler that is counted has just run
Handled == ops' # ops

\* the first lookup of an add or an edit is the validation of its ticker
Validated(op, calls) ==
    /\ Len(calls) >= 1
    /\ calls[1].ticker = op.ticker
    /\ calls[1].result # None

\* C4: an add_position whose ticker has no resolvable price reports failure
\* and leaves the portfolio in memory and the file as they were.
C4_RejectedAddChangesNothing ==
    [][(/\ Handled
        /\ lastOp'.op = "add_position"
        /\ Len(lookups') >= 1
        /\ lookups'[1].result = None)
          => (~ret'.success /\ portfolio' = portfolio /\ file' = file)]_vars

\* an add_position has just been rejected for its ticker, in front of a
\* portfolio that holds positions
C4_Witness ==
    /\ lastOp.op = "add_position"
    /\ Len(lookups) = 1
    /\ lookups[1].ticker = lastOp.ticker
    /\ lookups[1].result = None
    /\ ~ret.success
    /\ portfolio # <<>>

\* C5, as the specification has it: an add or an edit succeeds only if
\* get_current_price for the submitted ticker returned a price in that call.
C5_SuccessNeedsPrice ==
    (lastOp.op \in {"add_position", "edit_position"} /\ ret.success)
        => Validated(lastOp, lookups)

\* C5, as the code has it: an add, a desktop edit, and a web edit that
\* changes the ticker succeed only if get_current_price for the submitted
\* ticker returned a price in that call; a web edit that submits the ticker
\* the position already has succeeds without a lookup.
C5_SuccessNeedsPriceUnlessTickerKept ==
    [][(/\ Handled
        /\ lastOp'.op \in {"add_position", "edit_position"}
        /\ ret'.success)
          => \/ Validated(lastOp', lookups')
             \/ /\ variant = "web"
                /\ lastOp'.op = "edit_position"
                /\ lastOp'.target \in 1..Len(portfolio)
                /\ portfolio[lastOp'.target].ticker = lastOp'.ticker
                /\ lookups' = <<>>]_vars

\* a web edit has succeeded without a lookup
C5_Witness ==
    /\ variant = "web"
    /\ lastOp.op = "edit_position"
    /\ ret.success
    /\ lookups = <<>>

\* the rows on show
Rows == {ret.rows[i] : i \in 1..Len(ret.rows)}

\* C6, as the specification has it: every position whose total_cost is 0 is
\* reported with pl_percent 0, nothing divides by zero, and total_pl_percent
\* is 0 when total_investment is 0.
C6_ZeroCostPercentIsZero ==
    /\ \A row \in Rows : row.total_cost = 0 => row.pl_percent = Some(0)
    /\ ~ret.raised
    /\ ret.summary.total_investment = 0 => ret.summary.total_pl_percent = 0

\* C6, as the code has it: a position whose total_cost is 0 is reported
\* with pl_percent 0 when its price is resolved and with no pl_percent when
\* it is not; nothing divides by zero, and total_pl_percent is 0 when
\* total_investment is 0.
C6_ZeroCostPercentIsZeroWhenPriced ==
    /\ \A row \in Rows :
          row.total_cost = 0
              => row.pl_percent = IF row.current_price = None THEN None ELSE Some(0)
    /\ ~ret.raised
    /\ ret.summary.total_investment = 0 => ret.summary.total_pl_percent = 0

\* a listing whose positions all cost nothing, one of them priced
C6_Witness ==
    /\ ret.success
    /\ ret.summary.total_investment = 0
    /\ ret.summary.total_pl_percent = 0
    /\ \E row \in Rows :
          row.total_cost = 0 /\ row.current_price # None /\ row.pl_percent = Some(0)

\* the rows and the summary of ret are those of the portfolio as it is now
Listed ==
    /\ ret.success
    /\ ~ret.raised
    /\ \/ variant = "web" /\ lastOp.op \in {"get_portfolio", "export_data"}
       \/ variant = "tk" /\ lastOp.op \in {"add_position", "edit_position",
                                           "delete_position", "update_display"}

\* the price the listing got for the position at index i: its lookups are
\* the last Len(portfolio) calls of the handler
PriceOf(i) == lookups[Len(lookups) - Len(portfolio) + i].result

RECURSIVE Invested(_)
Invested(n) ==
    IF n = 0 THEN 0
    ELSE Invested(n - 1)
            + portfolio[n].quantity * portfolio[n].purchase_price + portfolio[n].fees

RECURSIVE Valued(_)
Valued(n) ==
    IF n = 0 THEN 0
    ELSE Valued(n - 1)
            + IF PriceOf(n) = None THEN 0 ELSE portfolio[n].quantity * PriceOf(n)[1]

\* C7: total_investment is the sum of quantity * purchase_price + fees over
\* all positions, and total_current_value the sum of quantity * current_price
\* over exactly the positions whose price was resolved.
C7_Totals ==
    Listed =>
        /\ Len(lookups) >= Len(portfolio)
        /\ Len(ret.rows) = Len(portfolio)
        /\ ret.summary.total_investment = Invested(Len(portfolio))
        /\ ret.summary.total_current_value = Valued(Len(portfolio))

\* a listing with one position priced and one not, fees included
C7_Witness ==
    /\ Listed
    /\ Len(lookups) >= Len(portfolio)
    /\ \E i, j \in 1..Len(portfolio) :
          /\ PriceOf(i) = None
          /\ PriceOf(j) # None
          /\ portfolio[i].fees > 0
    /\ ret.summary.total_current_value > 0
    /\ ret.summary.total_investment = Invested(Len(portfolio))

\* C8, as the specification has it: total_pl is total_current_value minus
\* total_investment whatever prices are resolved, and the web and the
\* desktop variant compute the same total_pl from the same totals.
C8_TotalPl ==
    Listed =>
        /\ ret.summary.total_pl
              = ret.summary.total_current_value - ret.summary.total_investment
        /\ web_total_pl(ret.summary.total_current_value, ret.summary.total_investment)
              = tk_total_pl(ret.summary.total_current_value, ret.summary.total_investment)

\* an export has just been written
Exported == lastOp.op = "export_data" /\ ret.success

\* C9: a successful export holds the header row and then one row for each
\* position of the portfolio, in portfolio order, priced or not.
C9_ExportRows ==
    Exported =>
        /\ Len(ret.csv) = Len(portfolio) + 1
        /\ ret.csv[1] = IF variant = "web" THEN CsvHeader ELSE TkCsvHeader
        /\ \A i \in 1..Len(portfolio) :
              /\ ret.csv[i + 1].Description = portfolio[i].description
              /\ ret.csv[i + 1].Ticker = portfolio[i].ticker
              /\ ret.csv[i + 1].Quantity = portfolio[i].quantity
              /\ ret.csv[i + 1].PurchasePrice = portfolio[i].purchase_price
              /\ ret.csv[i + 1].Fees = portfolio[i].fees

\* an export of two positions, one priced and one not
C9_Witness ==
    /\ Exported
    /\ Len(portfolio) = 2
    /\ Len(ret.csv) = 3
    /\ \E i, j \in 2..3 : ret.csv[i].CurrentPrice = NA /\ ret.csv[j].CurrentPrice # NA

\* C10: after a successful add, edit or delete that met no file error, the
\* file holds the portfolio in memory: load_data gives the same sequence.
C10_FileHoldsPortfolio ==
    (/\ lastOp.op \in {"add_position", "edit_position", "delete_position"}
     /\ ret.success
     /\ lastOp.ferr = "none")
        => (file.state = "ok" /\ load_data(file) = portfolio)

\* a web position has been edited and the file rewritten with it
C10_Witness ==
    /\ variant = "web"
    /\ lastOp.op = "edit_position"
    /\ lastOp.ferr = "none"
    /\ ret.success
    /\ Len(portfolio) = 2
    /\ portfolio[lastOp.target].ticker = lastOp.ticker
    /\ load_data(file) = portfolio

\* C11, as the specification has it: the ids of the positions in the web
\* store are pairwise distinct in every reachable state.
C11_IdsDistinct ==
    variant = "web" =>
        \A i, j \in 1..Len(portfolio) :
            i # j => portfolio[i].id # portfolio[j].id

\* an add or an edit has just written a position
Wrote == lastOp.op \in {"add_position", "edit_position"} /\ ret.success

\* the position it wrote: the last one for an add, the target of an edit
Written ==
    IF lastOp.op = "add_position" THEN portfolio[Len(portfolio)]
    ELSE portfolio[lastOp.target]

\* C12, as the specification has it: every position a successful add or
\* edit leaves in the store has quantity > 0, purchase_price > 0 and
\* fees >= 0, in the web and in the desktop variant.
C12_PositiveAmounts ==
    Wrote => /\ Written.quantity > 0
             /\ Written.purchase_price > 0
             /\ Written.fees >= 0

\* C13: a position written by add_position or edit_position stores its
\* ticker in upper case, and the validating lookup is made for the very
\* symbol that is stored.
C13_TickerUpperCase ==
    Wrote => /\ Upper(Written.ticker) = Written.ticker
             /\ lookups # <<>> => lookups[1].ticker = Written.ticker

\* form "a", whose ticker was typed in lower case, has been added after a
\* lookup of the upper-case symbol
C13_Witness ==
    /\ lastOp.op = "add_position"
    /\ ret.success
    /\ Written.description = "a"
    /\ Written.ticker = "AAA"
    /\ lookups # <<>>
    /\ lookups[1].ticker = "AAA"

\* C14, as the specification has it: when save_data cannot write the file
\* during an add, an edit or a delete, the operation does not raise and
\* reports failure.
C14_FileErrorReported ==
    (/\ lastOp.op \in {"add_position", "edit_position", "delete_position"}
     /\ lastOp.ferr # "none")
        => (~ret.raised /\ ~ret.success)

\* the four computed cells of a row
Computed(row) == {row.current_price, row.current_value, row.pl, row.pl_percent}

\* C15: a listing never fails for an unresolvable price: it has one entry
\* per stored position, in store order and with its total_cost, and the
\* current_price, current_value, pl and pl_percent of an entry are all None
\* exactly when the lookup for that position gave no price.
C15_UnpricedRowsKept ==
    /\ lastOp.op \in {"get_portfolio", "update_display"} => Listed
    /\ Listed =>
        /\ Len(ret.rows) = Len(portfolio)
        /\ Len(lookups) >= Len(portfolio)
        /\ \A i \in 1..Len(portfolio) :
              /\ ret.rows[i].description = portfolio[i].description
              /\ ret.rows[i].ticker = portfolio[i].ticker
              /\ ret.rows[i].total_cost
                    = portfolio[i].quantity * portfolio[i].purchase_price
                        + portfolio[i].fees
              /\ IF PriceOf(i) = None
                 THEN Computed(ret.rows[i]) = {None}
                 ELSE None \notin Computed(ret.rows[i])

\* the web listing of two positions, the first without a price and the
\* second with one
C15_Witness ==
    /\ variant = "web"
    /\ lastOp.op = "get_portfolio"
    /\ Listed
    /\ Len(ret.rows) = 2
    /\ Computed(ret.rows[1]) = {None}
    /\ ret.rows[1].total_cost > 0
    /\ None \notin Computed(ret.rows[2])

\* a call that found an entry for its ticker aged five minutes or more
Stale(call) ==
    /\ call.ticker \in DOMAIN call.before[1]
    /\ call.ticker \in DOMAIN call.before[2]
    /\ call.now - call.before[2][call.ticker] >= CacheMinutes

\* C20: an entry aged five minutes or more is never served: the provider
\* is asked; a price it gives replaces the entry's price and timestamp and
\* is returned, and a failure returns None, not the old price.
C20_StaleNeverServed ==
    \A call \in Calls :
        Stale(call) =>
            /\ call.queried
            /\ call.outcome = "price" =>
                  /\ call.result # None
                  /\ call.after[1][call.ticker] = call.result[1]
                  /\ call.after[2][call.ticker] = call.now
            /\ Unavailable(call) => call.result = None

\* an entry exactly five minutes old, holding another price than the
\* provider now gives, is replaced
C20_Witness ==
    \E call \in Calls :
        /\ Stale(call)
        /\ call.now - call.before[2][call.ticker] = CacheMinutes
        /\ call.outcome = "price"
        /\ call.before[1][call.ticker] # call.result[1]
        /\ call.after[1][call.ticker] = call.result[1]
        /\ call.after[2][call.ticker] = call.now

-----------------------------------------------------------------------------
(* Properties of concurrent web requests, checked under SpecLock (C16) and   *)
(* SpecThreads (C17)                                                       *)

\* the threads inside "with self.lock:"
Locked ==
    {t \in DOMAIN threads :
        threads[t].pc \in {"inside", "clearing", "clearing_timestamps"}}

\* at most one thread is inside the lock, and it is the one that holds it
MutualExclusion ==
    /\ Cardinality(Locked) <= 1
    /\ \A t \in Locked : lock = t

\* the threads whose get_current_price asked the provider and got a price
Fetchers ==
    {t \in DOMAIN threads :
        threads[t].call # <<>> /\ threads[t].call[1].outcome = "price"}

\* C16, as the specification has it: at most one thread is inside the
\* cache check / provider call at a time, and of the concurrent calls for
\* one uncached ticker exactly one asks the provider when it gives a price.
C16_OneQueryPerTicker ==
    /\ MutualExclusion
    /\ \A t, u \in Fetchers : threads[t].ticker = threads[u].ticker => t = u

\* C16, as the code has it: at most one thread is inside the lock at a
\* time; once one call has fetched a price, the concurrent calls for that
\* ticker are served from the cache without asking the provider, unless
\* refresh_all_prices has emptied the cache since that fetch or the call
\* read the time five minutes or more after it: such a call asks again.
C16_OneQueryUnlessRefreshedOrExpired ==
    /\ MutualExclusion
    /\ \A t \in DOMAIN threads :
          (/\ threads[t].call # <<>>
           /\ threads[t].call[1].fetched # None
           /\ threads[t].call[1].now - threads[t].call[1].fetched[2] < CacheMinutes)
              => /\ ~threads[t].call[1].queried
                 /\ threads[t].call[1].result = Some(threads[t].call[1].fetched[1])

\* a thread that stood at the lock while another fetched the price of its
\* ticker was served from the cache
C16_Witness ==
    \E t, u \in DOMAIN threads :
        /\ t \in Fetchers
        /\ threads[u].waited
        /\ threads[u].call # <<>>
        /\ threads[u].ticker = threads[t].ticker
        /\ ~threads[u].call[1].queried
        /\ threads[u].call[1].result = threads[t].call[1].result

\* every request has returned
Quiescent == threads # <<>> /\ \A t \in DOMAIN threads : threads[t].pc = "done"

\* the threads that added a position
Adders ==
    {t \in DOMAIN threads : threads[t].req = "add_position" /\ threads[t].success}

\* C17: store mutations take no lock, so concurrent add and delete
\* requests can lose data: once all have returned, the file holds the
\* portfolio in memory unless two mutations overlapped, and two added
\* positions carry distinct ids unless their adds overlapped or a delete
\* came between them; with overlapping requests both losses are reachable.
C17_LossOnlyByOverlap ==
    Quiescent =>
        /\ (\A t \in DOMAIN threads : ~threads[t].overlapped)
              => (file.state = "ok" /\ load_data(file) = portfolio)
        /\ \A t, u \in Adders :
              (t # u /\ threads[t].position[1].id = threads[u].position[1].id)
                  => \/ threads[t].overlapped /\ threads[u].overlapped
                     \/ \E d \in DOMAIN threads :
                           threads[d].req = "delete_position" /\ threads[d].success

\* two concurrent adds have both returned success: their positions carry
\* the same id and the file does not hold the portfolio
C17_Witness ==
    /\ Quiescent
    /\ \A t \in DOMAIN threads : threads[t].success
    /\ \E t, u \in Adders :
          /\ t # u
          /\ threads[t].position[1].id = threads[u].position[1].id
          /\ threads[t].position[1] \in {portfolio[i] : i \in 1..Len(portfolio)}
    /\ Len(load_data(file)) < Len(portfolio)

-----------------------------------------------------------------------------
(* Properties of the desktop's refresh threads, checked under SpecRefresh *)

\* the refresh threads alive: started by refresh_prices and not yet at the
\* end of refresh_thread
Alive ==
    refresh_threads
        + Cardinality({t \in DOMAIN threads : threads[t].pc # "done"})

\* C18, as the specification has it: at most one background refresh
\* thread is alive at any time, whatever the refresh_prices calls.
C18_OneRefreshThread == Alive <= 1

\* refresh_prices calls so far, and the threads that have run to their end
Started == refresh_threads + Len(threads)
Finished == Cardinality({t \in DOMAIN threads : threads[t].pc = "done"})

\* the tickers of a sequence of positions
TickersOf(positions) == [i \in 1..Len(positions) |-> positions[i].ticker]

-----------------------------------------------------------------------------
(* Properties of the web store, checked under SpecStore *)

\* the indices at which the store held the id the request named
Holding == {i \in 1..Len(portfolio) : portfolio[i].id = lastOp'.id}

\* the first of them
FirstHolding == CHOOSE i \in Holding : \A j \in Holding : i <= j

\* C21: delete_position(id) on the web store removes exactly one position,
\* the first whose id is the given one, and leaves the others as they were
\* and in their order; when no position has the id it reports failure and
\* leaves the portfolio and the file as they were.
C21_DeleteRemovesFirstWithId ==
    [][(Handled /\ variant = "web" /\ lastOp'.op = "delete_position")
          => IF Holding = {}
             THEN ~ret'.success /\ portfolio' = portfolio /\ file' = file
             ELSE /\ ret'.success
                  /\ Len(portfolio') = Len(portfolio) - 1
                  /\ \A j \in 1..(FirstHolding - 1) : portfolio'[j] = portfolio[j]
                  /\ \A j \in FirstHolding..Len(portfolio') :
                        portfolio'[j] = portfolio[j + 1]]_vars

\* the first of two positions with one id has been deleted: the second,
\* form "a", is what the store still holds
C21_Witness ==
    /\ variant = "web"
    /\ lastOp.op = "delete_position"
    /\ ret.success
    /\ lastOp.target = 1
    /\ Len(portfolio) = 1
    /\ portfolio[1].id = lastOp.id
    /\ portfolio[1].description = "a"

\* C22: edit_position(id, data) on the web store changes only the
\* description, ticker, quantity, purchase_price and fees of the first
\* position with that id: its id, its date_added, its place and every
\* other position stay; when the id is not found, or the ticker is changed
\* and cannot be resolved, it reports failure and leaves the portfolio and
\* the file as they were.
C22_EditChangesOnlyItsPosition ==
    [][(Handled /\ variant = "web" /\ lastOp'.op = "edit_position")
          => IF \/ Holding = {}
                \/ /\ lastOp'.ticker # portfolio[FirstHolding].ticker
                   /\ lookups' # <<>>
                   /\ lookups'[1].result = None
             THEN ~ret'.success /\ portfolio' = portfolio /\ file' = file
             ELSE /\ ret'.success
                  /\ Len(portfolio') = Len(portfolio)
                  /\ \A j \in 1..Len(portfolio) :
                        j # FirstHolding => portfolio'[j] = portfolio[j]
                  /\ portfolio'[FirstHolding].id = portfolio[FirstHolding].id
                  /\ portfolio'[FirstHolding].date_added
                        = portfolio[FirstHolding].date_added
                  /\ portfolio'[FirstHolding].ticker = lastOp'.ticker]_vars

\* the first of two positions with one id has been edited to another
\* ticker and description, the second still being as it was
C22_Witness ==
    /\ variant = "web"
    /\ lastOp.op = "edit_position"
    /\ ret.success
    /\ lastOp.target = 1
    /\ Len(portfolio) = 2
    /\ portfolio[1].id = lastOp.id
    /\ portfolio[2].id = lastOp.id
    /\ portfolio[1].description = "c"
    /\ portfolio[2].description = "a"
    /\ lookups # <<>>

-----------------------------------------------------------------------------
(* The web export, checked under Spec *)

\* the four computed cells of a line of the export
ComputedCells(line) == {line.CurrentPrice, line.CurrentValue, line.PL, line.PLPercent}

\* C23, as the specification has it: in the web export the Current Price,
\* Current Value, P&L and P&L % cells of a row are 'N/A' exactly when the
\* price of its position was unresolvable; a priced position whose P&L or
\* P&L % is 0 is exported with the number.
C23_NAOnlyWhenUnpriced ==
    (Exported /\ variant = "web") =>
        \A i \in 1..Len(ret.rows) :
            \A c \in ComputedCells(ret.csv[i + 1]) :
                (c = NA) <=> IsNone(ret.rows[i].current_price)

-----------------------------------------------------------------------------
(* The two cache maps of the web variant, checked under SpecLock *)

\* C24: in the web variant, whenever no thread is inside the lock,
\* price_cache and cache_timestamp have the same tickers as keys, and every
\* cached price is the price the provider returned for that ticker, kept
\* with the time of that fetch.
C24_CacheMapsAgree ==
    (variant = "web" /\ lock = 0) =>
        /\ DOMAIN price_cache = DOMAIN cache_timestamp
        /\ \A ticker \in DOMAIN price_cache :
              /\ fetched[ticker] # None
              /\ price_cache[ticker] = fetched[ticker][1]
              /\ cache_timestamp[ticker] = fetched[ticker][2]

\* a refresh has emptied both maps and a lookup that came after it has
\* filled them again; the lock is free
C24_Witness ==
    /\ variant = "web"
    /\ lock = 0
    /\ DOMAIN price_cache # {}
    /\ \E t, u \in DOMAIN threads :
          /\ threads[t].req = "refresh_all_prices"
          /\ threads[t].pc = "done"
          /\ threads[u].call # <<>>
          /\ threads[u].call[1].afterRefresh # "no"
          /\ threads[u].call[1].queried
          /\ threads[u].ticker \in DOMAIN price_cache

-----------------------------------------------------------------------------
(* The lock of the web variant, checked under SpecLive *)

\* C25: the cache lock is held only by a thread inside the with block of
\* get_current_price or of refresh_all_prices: every way out of either
\* (cache hit, fetched price, empty result, provider exception) releases
\* it; it is taken only when it is free, never by the thread that holds
\* it; and, the provider answering every call, every add_position,
\* edit_position, get_portfolio_data and refresh_all_prices request
\* returns: no deadlock is reachable.
C25_LockReleasedRequestsReturn ==
    /\ [](lock # 0 => lock \in Locked)
    /\ [](Cardinality(Locked) <= 1)
    /\ [][lock' # lock => (lock = 0 \/ lock' = 0)]_vars
    /\ (threads # <<>>) ~> Quiescent

\* all requests have returned, one of them after standing at the lock
\* that another held, one after a call that the provider failed
C25_Witness ==
    /\ Quiescent
    /\ lock = 0
    /\ \E t, u \in DOMAIN threads :
          /\ threads[t].req \in {"add_position", "edit_position", "get_portfolio_data"}
          /\ threads[t].waited
          /\ threads[u].call # <<>>
          /\ threads[u].call[1].outcome \in {"empty", "error"}

=============================================================================
